---- MODULE Spec2Model ----
(***************************************************************************)
(* Model of src/scraper/scraper.py: the SIC-to-tier classifier, the SEC    *)
(* EDGAR company/metadata fetcher, the Wikipedia Chapter 11 name-set       *)
(* builder, the company labeler and the __main__ pipeline that runs them.  *)
(*                                                                         *)
(* Python strings that the program uppercases, strips or searches are      *)
(* sequences of one-character strings.  JSON values are tagged tuples:     *)
(* <<"null">>, <<"int", n>>, <<"str", s>>, <<"list", seq>>, <<"obj", f>>.  *)
(***************************************************************************)
EXTENDS Integers, Sequences, FiniteSets, TLC

VARIABLES
    pc,         \* position of the running call / of __main__
    sic_in,     \* argument of a direct sic_to_tier call
    tier_out,   \* its return value
    response,   \* what the submissions endpoint answers to a direct fetch_company_metadata call
    meta,       \* what that call returns
    companies,        \* the company table (the DataFrame object the caller holds)
    disrupted_names,  \* the bankruptcy name set
    labelled,         \* the table label_companies returned
    max_companies,    \* --max-companies
    years,            \* --years
    listing,          \* the entries company_tickers.json answered with
    tickers,          \* the table fetch_all_tickers returned
    row_i,            \* rows of tickers build_company_dataset has been through
    records,          \* its records list
    sec_log,          \* requests to data.sec.gov and sleeps of that loop, in order
    year_i,           \* years scrape_wikipedia_bankruptcies has been through
    all_records,      \* its all_records list
    wiki_log,         \* requests to en.wikipedia.org and sleeps of that loop, in order
    files,            \* the csv files written so far: file name -> table
    error             \* the exception that ended __main__, "" while there is none

tierVars == <<sic_in, tier_out>>
metaVars == <<response, meta>>
labelVars == <<companies, disrupted_names, labelled>>
secVars == <<max_companies, listing, tickers, row_i, records, sec_log>>
wikiVars == <<years, year_i, all_records, wiki_log>>
runVars == <<files, error>>

vars == <<pc, tierVars, metaVars, labelVars, secVars, wikiVars, runVars>>

(***************************************************************************)
(* Bounds of the explored inputs.                                          *)
(***************************************************************************)
MaxSic == 6100      \* industry codes up to here (one hundred past the last range)
MaxNeg == 20        \* and down to -MaxNeg

SicCodes == (0 - MaxNeg)..MaxSic

NoTier == 0 - 1     \* tier_out before the call has returned

(***************************************************************************)
(* SIC_RANGES and sic_to_tier (scraper.py 39-58).  range(lo, hi) is the    *)
(* triple <<lo, hi, tier>>; "sic in range(lo, hi)" is lo <= sic < hi.      *)
(***************************************************************************)
SIC_RANGES ==
    << <<100, 1000, 0>>,
       <<2000, 2800, 1>>,
       <<2800, 3600, 1>>,
       <<3000, 3600, 3>>,
       <<3600, 3800, 2>>,
       <<3800, 4000, 2>>,
       <<5000, 5200, 3>>,
       <<5200, 5400, 4>>,
       <<5400, 5800, 4>>,
       <<5900, 6000, 4>> >>

InRange(sic, r) == r[1] <= sic /\ sic < r[2]

\* the for loop of sic_to_tier from entry k on: the first range holding sic
\* returns its tier, falling off the end returns 2
RECURSIVE ScanRanges(_, _)
ScanRanges(sic, k) ==
    IF k > Len(SIC_RANGES) THEN 2
    ELSE IF InRange(sic, SIC_RANGES[k]) THEN SIC_RANGES[k][3]
    ELSE ScanRanges(sic, k + 1)

\* mutant: the loop keeps going and the last range holding sic wins
RECURSIVE ScanRangesLast(_, _, _)
ScanRangesLast(sic, k, acc) ==
    IF k > Len(SIC_RANGES) THEN acc
    ELSE ScanRangesLast(sic, k + 1,
                        IF InRange(sic, SIC_RANGES[k]) THEN SIC_RANGES[k][3] ELSE acc)

sic_to_tier_last_wins(sic) == ScanRangesLast(sic, 1, 2)

\* mutant: an unknown code falls back to tier 0 instead of 2
sic_to_tier_default_zero(sic) ==
    IF \E k \in DOMAIN SIC_RANGES : InRange(sic, SIC_RANGES[k])
    THEN ScanRanges(sic, 1) ELSE 0

\* mutant: tiers numbered from one
sic_to_tier_one_based(sic) == ScanRanges(sic, 1) + 1

sic_to_tier(sic) == ScanRanges(sic, 1)

(***************************************************************************)
(* Python str operations on sequences of characters.                       *)
(***************************************************************************)
Whitespace == {" ", "\t", "\n"}

LowerCase == <<"a","b","c","d","e","f","g","h","i","j","k","l","m",
               "n","o","p","q","r","s","t","u","v","w","x","y","z">>
UpperCase == <<"A","B","C","D","E","F","G","H","I","J","K","L","M",
               "N","O","P","Q","R","S","T","U","V","W","X","Y","Z">>

ToUpper(c) ==
    IF \E i \in DOMAIN LowerCase : LowerCase[i] = c
    THEN UpperCase[CHOOSE i \in DOMAIN LowerCase : LowerCase[i] = c]
    ELSE c

\* str.upper()
upper(s) == [i \in 1..Len(s) |-> ToUpper(s[i])]

RECURSIVE lstrip(_)
lstrip(s) ==
    IF s = <<>> THEN s
    ELSE IF Head(s) \in Whitespace THEN lstrip(Tail(s)) ELSE s

RECURSIVE rstrip(_)
rstrip(s) ==
    IF s = <<>> THEN s
    ELSE IF s[Len(s)] \in Whitespace THEN rstrip(SubSeq(s, 1, Len(s) - 1)) ELSE s

\* str.strip()
strip(s) == rstrip(lstrip(s))

\* "needle in hay": a left-to-right search for the first occurrence from k on
RECURSIVE FindFrom(_, _, _)
FindFrom(needle, hay, k) ==
    IF k + Len(needle) - 1 > Len(hay) THEN FALSE
    ELSE IF SubSeq(hay, k, k + Len(needle) - 1) = needle THEN TRUE
    ELSE FindFrom(needle, hay, k + 1)

StrIn(needle, hay) == FindFrom(needle, hay, 1)

\* str.count(sub) for a non-empty sub: non-overlapping occurrences from k on
RECURSIVE CountFrom(_, _, _)
CountFrom(sub, s, k) ==
    IF k + Len(sub) - 1 > Len(s) THEN 0
    ELSE IF SubSeq(s, k, k + Len(sub) - 1) = sub
         THEN 1 + CountFrom(sub, s, k + Len(sub))
         ELSE CountFrom(sub, s, k + 1)

Digits == <<"0","1","2","3","4","5","6","7","8","9">>

IsDigit(c) == \E i \in DOMAIN Digits : Digits[i] = c

DigitVal(c) == (CHOOSE i \in DOMAIN Digits : Digits[i] = c) - 1

RECURSIVE DigitsVal(_, _)
DigitsVal(s, acc) ==
    IF s = <<>> THEN acc ELSE DigitsVal(Tail(s), 10 * acc + DigitVal(Head(s)))

\* str(n) of a natural number
RECURSIVE StrNat(_)
StrNat(n) ==
    IF n < 10 THEN <<Digits[n + 1]>> ELSE StrNat(n \div 10) \o <<Digits[(n % 10) + 1]>>

\* str.zfill(width) of a string without a sign
RECURSIVE zfill(_, _)
zfill(s, width) == IF Len(s) >= width THEN s ELSE zfill(<<"0">> \o s, width)

\* int(str): surrounding whitespace and one sign are accepted, then digits only
IntOfStr(s) ==
    LET t    == strip(s)
        sgn  == t # <<>> /\ Head(t) \in {"+", "-"}
        body == IF sgn THEN Tail(t) ELSE t
    IN  IF body # <<>> /\ \A i \in DOMAIN body : IsDigit(body[i])
        THEN [raised |-> FALSE,
              value  |-> IF sgn /\ Head(t) = "-" THEN 0 - DigitsVal(body, 0)
                         ELSE DigitsVal(body, 0)]
        ELSE [raised |-> TRUE, value |-> 0]

(***************************************************************************)
(* JSON values and the dict operations the fetcher uses.                   *)
(***************************************************************************)
JNull == <<"null">>
JInt(n) == <<"int", n>>
JStr(s) == <<"str", s>>
JList(l) == <<"list", l>>
JObj(f) == <<"obj", f>>

EmptyFn == [k \in {} |-> JNull]

\* dict.get(key, default)
DictGet(f, key, default) == IF key \in DOMAIN f THEN f[key] ELSE default

\* truth value of a JSON value in "x or 0"
Falsy(v) ==
    \/ v[1] = "null"
    \/ v[1] = "int" /\ v[2] = 0
    \/ v[1] \in {"str", "list"} /\ Len(v[2]) = 0
    \/ v[1] = "obj" /\ DOMAIN v[2] = {}

\* int(v)
IntOf(v) ==
    CASE v[1] = "int" -> [raised |-> FALSE, value |-> v[2]]
      [] v[1] = "str" -> IntOfStr(v[2])
      [] OTHER        -> [raised |-> TRUE, value |-> 0]

S_10K == <<"1","0","-","K">>
S_8K == <<"8","-","K">>

\* forms.count(x) where forms is a list (equal elements) or a str (occurrences)
CountOf(forms, x) ==
    IF forms[1] = "list"
    THEN Cardinality({i \in DOMAIN forms[2] :
                          forms[2][i][1] = "str" /\ forms[2][i][2] = x})
    ELSE CountFrom(x, forms[2], 1)

(***************************************************************************)
(* SECEdgarScraper.fetch_company_metadata (scraper.py 168-194).            *)
(* The endpoint's answer is <<"error">> (session.get or raise_for_status   *)
(* raises), <<"badjson">> (resp.json() raises) or <<"ok", data>>.          *)
(***************************************************************************)
None == [ok |-> FALSE]

\* mutant: data.get("sic", 0) without the "or 0"
SicOf_without_or(data) == IntOf(DictGet(data, "sic", JInt(0)))

\* int(data.get("sic", 0) or 0)
SicOf(data) ==
    LET raw == DictGet(data, "sic", JInt(0))
    IN  IntOf(IF Falsy(raw) THEN JInt(0) ELSE raw)

\* data.get("filings", {}).get("recent", {}).get("form", [])
FormsOf(data) ==
    LET filings == DictGet(data, "filings", JObj(EmptyFn))
    IN  IF filings[1] # "obj" THEN [raised |-> TRUE, value |-> JNull]
        ELSE LET recent == DictGet(filings[2], "recent", JObj(EmptyFn))
             IN  IF recent[1] # "obj" THEN [raised |-> TRUE, value |-> JNull]
                 ELSE [raised |-> FALSE,
                       value  |-> DictGet(recent[2], "form", JList(<<>>))]

fetch_company_metadata(cik, resp) ==
    IF resp[1] # "ok" THEN None
    ELSE IF resp[2][1] # "obj" THEN None
    ELSE LET data  == resp[2][2]
             forms == FormsOf(data)
             sic   == SicOf(data)
         IN  IF forms.raised \/ sic.raised THEN None
             ELSE IF forms.value[1] \notin {"list", "str"} THEN None
             ELSE [ok  |-> TRUE,
                   rec |-> [cik             |-> cik,
                            name            |-> DictGet(data, "name", JStr(<<>>)),
                            sic             |-> sic.value,
                            sic_description |-> DictGet(data, "sicDescription", JStr(<<>>)),
                            state           |-> DictGet(data, "stateOfIncorporation", JStr(<<>>)),
                            n_10k           |-> CountOf(forms.value, S_10K),
                            n_8k            |-> CountOf(forms.value, S_8K),
                            n_total_filings |-> Len(forms.value[2]),
                            tier            |-> sic_to_tier(sic.value)]]

(***************************************************************************)
(* pandas tables: the column names in order and the rows, each row a       *)
(* record over the columns.                                                *)
(***************************************************************************)
NoTable == [columns |-> <<>>, rows |-> <<>>]

SeqHas(q, x) == \E i \in DOMAIN q : q[i] = x

\* pd.DataFrame(dicts) of a list of dicts that all have the keys cols: a list
\* without dicts gives a table without columns
DataFrame(dicts, cols) ==
    IF dicts = <<>> THEN NoTable ELSE [columns |-> cols, rows |-> dicts]

(***************************************************************************)
(* label_companies (scraper.py 215-231).                                   *)
(***************************************************************************)
\* mutant: only "entry in name" is tested
is_disrupted_one_way(name, names) ==
    LET name_up == strip(upper(name))
    IN  IF \E d \in names : StrIn(d, name_up) THEN 1 ELSE 0

\* the inner function: name.upper().strip(), then any() over the set as it is
is_disrupted(name, names) ==
    LET name_up == strip(upper(name))
    IN  IF \E d \in names : StrIn(d, name_up) \/ StrIn(name_up, d) THEN 1 ELSE 0

LabelRow(r, names) == [disrupted |-> is_disrupted(r.name[2], names)] @@ r

\* what a call does to the table object it was given (input) and what it
\* returns (output); raised when companies["name"] (KeyError) or name.upper()
\* of a name that is no str (AttributeError) raises
LabelOutcome(tbl, names) ==
    IF ~SeqHas(tbl.columns, "name")
    THEN [raised |-> "KeyError", input |-> tbl, output |-> NoTable]
    ELSE IF \E i \in DOMAIN tbl.rows : tbl.rows[i].name[1] # "str"
    THEN [raised |-> "AttributeError", input |-> tbl, output |-> NoTable]
    ELSE [raised |-> "no",
          input  |-> tbl,
          output |-> [columns |-> IF SeqHas(tbl.columns, "disrupted") THEN tbl.columns
                                  ELSE Append(tbl.columns, "disrupted"),
                      rows    |-> [i \in DOMAIN tbl.rows |-> LabelRow(tbl.rows[i], names)]]]

\* mutant: no companies.copy(), the column is added to the caller's table
label_companies_in_place(tbl, names) ==
    LET out == LabelOutcome(tbl, names)
    IN  IF out.raised = "no" THEN [out EXCEPT !.input = out.output] ELSE out

label_companies(tbl, names) == LabelOutcome(tbl, names)

(***************************************************************************)
(* SECEdgarScraper.fetch_all_tickers and the loop of build_company_dataset *)
(* (scraper.py 151-213).                                                   *)
(***************************************************************************)
TickerColumns == <<"cik", "ticker", "name">>

CompanyColumns ==
    <<"cik", "name", "sic", "sic_description", "state",
      "n_10k", "n_8k", "n_total_filings", "tier", "ticker">>

\* list(resp.json().items())[:max_companies] for max_companies >= 0
FirstN(entries, n) == SubSeq(entries, 1, IF n < Len(entries) THEN n ELSE Len(entries))

fetch_all_tickers(entries, n) ==
    DataFrame([k \in DOMAIN FirstN(entries, n) |->
                  [cik    |-> zfill(StrNat(entries[k].cik_str), 10),
                   ticker |-> entries[k].ticker,
                   name   |-> entries[k].title]],
              TickerColumns)

\* mutant: a failed fetch leaves a record of what the listing knows
MetaStep_partial_record(recs, row, resp) ==
    LET m == fetch_company_metadata(row.cik, resp)
    IN  IF m.ok THEN Append(recs, [ticker |-> row.ticker] @@ m.rec)
        ELSE Append(recs, [cik |-> row.cik, ticker |-> row.ticker])

\* one pass of the loop body on the records list: fetch, "if meta:" (a record
\* is a non-empty dict, so true), set the ticker, append
MetaStep(recs, row, resp) ==
    LET m == fetch_company_metadata(row.cik, resp)
    IN  IF m.ok THEN Append(recs, [ticker |-> row.ticker] @@ m.rec) ELSE recs

(***************************************************************************)
(* DisruptionLabelScraper (scraper.py 68-137).  A year page answers        *)
(* <<"error">> (session.get raises), <<"http">> (raise_for_status raises)  *)
(* or <<"page", [mw_pages, links]>>: whether the div with id mw-pages is   *)
(* there, and the text of each <a> in it (one text node per link).         *)
(***************************************************************************)
BankruptcyColumns == <<"name", "year", "disrupted", "source">>

\* the inner for loop: link.get_text(strip=True), kept when not empty
RECURSIVE AppendLinks(_, _, _)
AppendLinks(recs, links, year) ==
    IF links = <<>> THEN recs
    ELSE LET name == strip(Head(links))
         IN  AppendLinks(IF name # <<>>
                         THEN Append(recs, [name      |-> name,
                                            year      |-> year,
                                            disrupted |-> 1,
                                            source    |-> "wikipedia_ch11"])
                         ELSE recs,
                         Tail(links), year)

PageFailed(outcome) == outcome[1] # "page" \/ ~outcome[2].mw_pages

\* mutant: the first year that fails ends the loop
WikiStep_break(recs, k, yrs, outcome) ==
    IF PageFailed(outcome)
    THEN [all_records |-> recs, year_i |-> Len(yrs), slept |-> FALSE]
    ELSE [all_records |-> AppendLinks(recs, outcome[2].links, yrs[k]),
          year_i      |-> k,
          slept       |-> TRUE]

\* one pass of the outer loop for yrs[k]: the three "continue" exits skip
\* the rest of the body, time.sleep(1) included
WikiStep(recs, k, yrs, outcome) ==
    IF PageFailed(outcome)
    THEN [all_records |-> recs, year_i |-> k, slept |-> FALSE]
    ELSE [all_records |-> AppendLinks(recs, outcome[2].links, yrs[k]),
          year_i      |-> k,
          slept       |-> TRUE]

\* builld_disrupted_name_set on the scraped table:
\* set(df["name"].str.upper().str.strip().dropna())
NameSetOf(df) ==
    IF df.rows = <<>> THEN {}
    ELSE {strip(upper(df.rows[k].name)) : k \in DOMAIN df.rows}

(***************************************************************************)
(* The parts of the state a specification does not use stay as they are    *)
(* before anything ran.                                                    *)
(***************************************************************************)
NoFiles == [f \in {} |-> NoTable]

TierIdle == sic_in = 0 /\ tier_out = NoTier

MetaIdle == response = <<"unused">> /\ meta = None

LabelIdle == companies = NoTable /\ disrupted_names = {} /\ labelled = NoTable

MainIdle ==
    /\ max_companies = 0 /\ listing = <<>> /\ tickers = NoTable
    /\ row_i = 0 /\ records = <<>> /\ sec_log = <<>>
    /\ years = <<>> /\ year_i = 0 /\ all_records = <<>> /\ wiki_log = <<>>
    /\ files = NoFiles /\ error = ""

(***************************************************************************)
(* SpecTier: direct calls of sic_to_tier on every code of SicCodes.        *)
(***************************************************************************)
InitTier ==
    /\ pc = "tier_call"
    /\ sic_in \in SicCodes
    /\ tier_out = NoTier
    /\ MetaIdle /\ LabelIdle /\ MainIdle

SicToTier ==
    /\ pc = "tier_call"
    /\ tier_out' = sic_to_tier(sic_in)
    /\ pc' = "tier_returned"
    /\ UNCHANGED <<sic_in, metaVars, labelVars, secVars, wikiVars, runVars>>

NextTier == SicToTier

SpecTier == InitTier /\ [][NextTier]_vars

\* indices of the declared ranges that hold the code
RangesHolding(sic) == {k \in DOMAIN SIC_RANGES : InRange(sic, SIC_RANGES[k])}

Earliest(S) == CHOOSE k \in S : \A j \in S : k <= j

\* C2: a code lying in two or more declared ranges gets the tier of the
\* earliest declared of them; every code of 3000..3599 gets tier 1.
C2_EarliestRangeWins ==
    pc = "tier_returned" =>
        /\ Cardinality(RangesHolding(sic_in)) >= 2 =>
               tier_out = SIC_RANGES[Earliest(RangesHolding(sic_in))][3]
        /\ sic_in \in 3000..3599 => tier_out = 1

C2_Witness ==
    /\ pc = "tier_returned"
    /\ sic_in = 3000
    /\ RangesHolding(sic_in) = {3, 4}
    /\ tier_out = 1

\* C4: a code held by no declared range (0, negatives, below 100, 1000..1999,
\* 4000..4999, 5800..5899, 6000 and up) gets tier 2.
C4_UnmappedIsTwo ==
    pc = "tier_returned" =>
        /\ RangesHolding(sic_in) = {} => tier_out = 2
        /\ ( \/ sic_in < 100
             \/ sic_in \in 1000..1999
             \/ sic_in \in 4000..4999
             \/ sic_in \in 5800..5899
             \/ sic_in >= 6000 ) => tier_out = 2

C4_Witness ==
    /\ pc = "tier_returned"
    /\ sic_in = 5850
    /\ RangesHolding(sic_in) = {}
    /\ tier_out = 2

(***************************************************************************)
(* SpecMeta: direct calls of fetch_company_metadata on the answers the     *)
(* submissions endpoint can give.  A document is built from one choice per *)
(* field; Absent means the key is not in the document.                     *)
(***************************************************************************)
Absent == <<"absent">>

DocKeys == {"sic", "name", "sicDescription", "stateOfIncorporation", "filings"}

\* the JSON object holding the chosen fields that are not Absent
MkDoc(sic, name, desc, state, filings) ==
    LET F == [k \in DocKeys |->
                 CASE k = "sic"                  -> sic
                   [] k = "name"                 -> name
                   [] k = "sicDescription"       -> desc
                   [] k = "stateOfIncorporation" -> state
                   [] k = "filings"              -> filings]
    IN  JObj([k \in {x \in DocKeys : F[x][1] # "absent"} |-> F[k]])

S_Acme == <<"A","c","m","e">>
S_3571 == <<"3","5","7","1">>

Filing(forms) == JObj([k \in {"recent"} |-> JObj([j \in {"form"} |-> forms])])

\* every integer code, as EDGAR could send it
IntSicFields == {JInt(n) : n \in SicCodes}

\* the other shapes of the field: absent, null, strings (EDGAR sends the code
\* as a string, empty when unknown), lists
OtherSicFields ==
    {Absent, JNull, JStr(<<>>), JStr(S_3571), JStr(<<" ","2","8","3","4","\n">>),
     JStr(<<"-","5">>), JStr(<<"n","/","a">>), JStr(<<"1","2","a">>),
     JList(<<>>), JList(<<JInt(3571)>>)}

NameFields == {Absent, JNull, JStr(S_Acme)}
DescFields == {Absent, JInt(7), JStr(<<"C","o","m","p","u","t","e","r","s">>)}
StateFields == {Absent, JNull, JStr(<<"D","E">>)}

FilingsFields ==
    {Absent, JNull, JList(<<>>),
     JObj(EmptyFn),
     JObj([k \in {"recent"} |-> JNull]),
     JObj([k \in {"recent"} |-> JObj(EmptyFn)]),
     Filing(JNull),
     Filing(JInt(3)),
     Filing(JList(<<>>)),
     Filing(JList(<<JStr(S_10K), JStr(S_8K), JStr(S_10K), JStr(<<"4">>), JNull>>)),
     Filing(JStr(<<"1","0","-","K",",","8","-","K">>))}

WellFormedFilings == Filing(JList(<<JStr(S_10K), JStr(S_8K)>>))

\* every code in an otherwise ordinary document, and every combination of the
\* other shapes of all five fields
Docs ==
    {MkDoc(sic, JStr(S_Acme), Absent, JStr(<<"D","E">>), WellFormedFilings) :
         sic \in IntSicFields}
    \cup
    {MkDoc(f[1], f[2], f[3], f[4], f[5]) :
         f \in OtherSicFields \X NameFields \X DescFields \X StateFields \X FilingsFields}

Responses ==
    {<<"error">>, <<"badjson">>, <<"ok", JNull>>, <<"ok", JList(<<>>)>>}
    \cup {<<"ok", d>> : d \in Docs}

\* the identifier fetch_all_tickers makes of cik_str 320193
CikUnderTest == zfill(StrNat(320193), 10)

InitMeta ==
    /\ pc = "meta_call"
    /\ response \in Responses
    /\ meta = None
    /\ TierIdle /\ LabelIdle /\ MainIdle

FetchCompanyMetadata ==
    /\ pc = "meta_call"
    /\ meta' = fetch_company_metadata(CikUnderTest, response)
    /\ pc' = "meta_returned"
    /\ UNCHANGED <<response, tierVars, labelVars, secVars, wikiVars, runVars>>

NextMeta == FetchCompanyMetadata

SpecMeta == InitMeta /\ [][NextMeta]_vars

\* the call was answered with a JSON object
FetchedDocument == response[1] = "ok" /\ response[2][1] = "obj"

Has(key) == key \in DOMAIN response[2][2]

Field(key) == response[2][2][key]

\* C3: sic_to_tier returns a tier of 0..4 for every integer, zero and
\* negatives included, so every record fetch_company_metadata returns
\* carries a tier of 0..4.
C3_TierInRange ==
    (pc = "meta_returned" /\ meta.ok) =>
        /\ meta.rec.tier \in 0..4
        /\ meta.rec.sic \in Int

C3_Witness ==
    /\ pc = "meta_returned"
    /\ meta.ok
    /\ meta.rec.sic < 0
    /\ meta.rec.tier = 2

\* C8 as claimed: every fetched document yields a record, whatever field is
\* missing or malformed, and a missing industry code becomes 0 with tier 2.
C8_AsClaimed ==
    (pc = "meta_returned" /\ FetchedDocument) =>
        /\ meta.ok
        /\ ~Has("sic") => (meta.rec.sic = 0 /\ meta.rec.tier = 2)

\* the shapes of the two fields whose conversion can raise
SicConvertible ==
    \/ ~Has("sic")
    \/ Field("sic")[1] = "null"
    \/ Field("sic")[1] = "int"
    \/ Field("sic")[1] = "list" /\ Field("sic")[2] = <<>>
    \/ /\ Field("sic")[1] = "str"
       /\ \/ Field("sic")[2] = <<>>
          \/ \E i, j \in DOMAIN Field("sic")[2] :
                /\ i <= j
                /\ \A k \in DOMAIN Field("sic")[2] :
                      IF k < i \/ k > j THEN Field("sic")[2][k] \in Whitespace
                      ELSE IF k = i /\ i < j THEN
                           (IsDigit(Field("sic")[2][k]) \/ Field("sic")[2][k] \in {"+", "-"})
                      ELSE IsDigit(Field("sic")[2][k])

FilingsCountable ==
    \/ ~Has("filings")
    \/ /\ Field("filings")[1] = "obj"
       /\ \/ "recent" \notin DOMAIN Field("filings")[2]
          \/ /\ Field("filings")[2]["recent"][1] = "obj"
             /\ \/ "form" \notin DOMAIN Field("filings")[2]["recent"][2]
                \/ Field("filings")[2]["recent"][2]["form"][1] \in {"list", "str"}

\* C8 as amended: a missing field is defaulted and the record is returned; a
\* present name, description or state is copied as it is; a malformed
\* industry code or filings structure loses the record.
C8_MissingDefaultedMalformedDropped ==
    (pc = "meta_returned" /\ FetchedDocument) =>
        /\ meta.ok <=> (SicConvertible /\ FilingsCountable)
        /\ meta.ok =>
             /\ (~Has("sic") \/ Falsy(Field("sic")))
                    => (meta.rec.sic = 0 /\ meta.rec.tier = 2)
             /\ meta.rec.name = IF Has("name") THEN Field("name") ELSE JStr(<<>>)
             /\ meta.rec.sic_description =
                    IF Has("sicDescription") THEN Field("sicDescription") ELSE JStr(<<>>)
             /\ meta.rec.state =
                    IF Has("stateOfIncorporation") THEN Field("stateOfIncorporation")
                    ELSE JStr(<<>>)
             /\ ~Has("filings") =>
                    (meta.rec.n_10k = 0 /\ meta.rec.n_8k = 0 /\ meta.rec.n_total_filings = 0)

\* a document without industry code, name and filings still gives a record
C8_Witness ==
    /\ pc = "meta_returned"
    /\ FetchedDocument
    /\ ~Has("sic") /\ ~Has("name") /\ ~Has("filings")
    /\ meta.ok
    /\ meta.rec.sic = 0 /\ meta.rec.tier = 2
    /\ meta.rec.name = JStr(<<>>)
    /\ meta.rec.n_total_filings = 0

(***************************************************************************)
(* SpecLabel: direct calls of label_companies.  The tables have one row    *)
(* with every name of at most MaxNameLen characters over a lower-case      *)
(* letter, an upper-case letter and a blank, or are the tables of the      *)
(* documented examples; the name sets have at most MaxEntries entries of   *)
(* at most MaxEntryLen characters, stored as the caller passes them.       *)
(***************************************************************************)
MaxNameLen == 2
MaxEntryLen == 2
MaxEntries == 2

Alphabet == {"a", "B", " "}

StringsUpTo(n) == UNION {[1..k -> Alphabet] : k \in 0..n}

\* the sets of at most n elements of S
SetsUpTo(S, n) == {{}} \cup {{t[i] : i \in 1..n} : t \in [1..n -> S]}

CompanyRow(name, tier) == [name |-> JStr(name), tier |-> tier]

NameTierColumns == <<"name", "tier">>

S_AcmeCorp == <<"A","c","m","e"," ","C","o","r","p">>
S_AcmeInc == <<"A","c","m","e"," ","I","n","c">>
S_BetaLLC == <<"B","e","t","a"," ","L","L","C">>
S_Zeta == <<"Z","e","t","a">>
S_ACME == <<"A","C","M","E">>
S_GAMMACORP == <<"G","A","M","M","A"," ","C","O","R","P">>
S_AcmeCorpHoldings ==
    <<"A","c","m","e"," ","C","o","r","p"," ","H","o","l","d","i","n","g","s">>

OneRow(name) == [columns |-> NameTierColumns, rows |-> <<CompanyRow(name, 2)>>]

\* the documented examples: <<table, name set>>
DocumentedExamples ==
    { <<OneRow(S_AcmeCorp), {S_ACME}>>,
      <<OneRow(S_Acme), {S_AcmeCorpHoldings}>>,
      <<OneRow(S_Acme), {upper(S_AcmeCorpHoldings)}>>,
      <<OneRow(S_Zeta), {S_ACME}>>,
      <<[columns |-> NameTierColumns,
         rows |-> <<CompanyRow(S_AcmeInc, 3), CompanyRow(S_BetaLLC, 4)>>],
        {S_ACME, S_GAMMACORP}>>,
      <<[columns |-> NameTierColumns,
         rows |-> <<CompanyRow(S_BetaLLC, 4), CompanyRow(S_AcmeInc, 3)>>],
        {S_ACME, S_GAMMACORP}>> }

InitLabel ==
    /\ pc = "label_call"
    /\ \/ /\ companies \in {OneRow(n) : n \in StringsUpTo(MaxNameLen)}
          /\ disrupted_names \in SetsUpTo(StringsUpTo(MaxEntryLen), MaxEntries)
       \/ \E ex \in DocumentedExamples :
             /\ companies = ex[1]
             /\ disrupted_names = ex[2]
    /\ labelled = NoTable
    /\ TierIdle /\ MetaIdle /\ MainIdle

LabelCompanies ==
    /\ pc = "label_call"
    /\ LET out == label_companies(companies, disrupted_names)
       IN  /\ companies' = out.input
           /\ labelled' = out.output
           /\ pc' = IF out.raised = "no" THEN "label_returned" ELSE "label_raised"
    /\ UNCHANGED <<disrupted_names, tierVars, metaVars, secVars, wikiVars, runVars>>

NextLabel == LabelCompanies

SpecLabel == InitLabel /\ [][NextLabel]_vars

\* s with its leading and trailing whitespace dropped: the part from the
\* first to the last character that is no whitespace
Trimmed(s) ==
    LET keep == {i \in DOMAIN s : s[i] \notin Whitespace}
    IN  IF keep = {} THEN <<>>
        ELSE SubSeq(s, CHOOSE i \in keep : \A j \in keep : i <= j,
                       CHOOSE i \in keep : \A j \in keep : i >= j)

Normalized(s) == Trimmed([i \in DOMAIN s |-> ToUpper(s[i])])

\* x occurs in y as a contiguous run of characters
IsSubstring(x, y) ==
    \E k \in 0..(Len(y) - Len(x)) : \A i \in DOMAIN x : y[k + i] = x[i]

\* C1 as claimed: the label is 1 exactly when some entry B, uppercased and
\* trimmed, is a substring of the uppercased and trimmed name A or A is a
\* substring of B.
C1_AsClaimed ==
    pc = "label_returned" =>
        \A i \in DOMAIN labelled.rows :
            labelled.rows[i].disrupted = 1 <=>
                \E B \in disrupted_names :
                    LET A == Normalized(companies.rows[i].name[2])
                    IN  \/ IsSubstring(Normalized(B), A)
                        \/ IsSubstring(A, Normalized(B))

\* C1 as amended: the name A is uppercased and trimmed, the entry B is taken
\* as the set stores it; otherwise the label is 0.
C1_NameNormalizedEntryAsStored ==
    pc = "label_returned" =>
        \A i \in DOMAIN labelled.rows :
            /\ labelled.rows[i].disrupted \in {0, 1}
            /\ labelled.rows[i].disrupted = 1 <=>
                   \E B \in disrupted_names :
                       LET A == Normalized(companies.rows[i].name[2])
                       IN  IsSubstring(B, A) \/ IsSubstring(A, B)
            \* on a set of uppercased and trimmed entries that is the claimed rule
            /\ (\A B \in disrupted_names : Normalized(B) = B) =>
                   (labelled.rows[i].disrupted = 1 <=>
                        \E B \in disrupted_names :
                            LET A == Normalized(companies.rows[i].name[2])
                            IN  \/ IsSubstring(Normalized(B), A)
                                \/ IsSubstring(A, Normalized(B)))

\* the documented table ["Acme Inc", "Beta LLC"] with {"ACME", "GAMMA CORP"}
\* is labelled [1, 0]
C1_Witness ==
    /\ pc = "label_returned"
    /\ Len(companies.rows) = 2
    /\ companies.rows[1].name = JStr(S_AcmeInc)
    /\ companies.rows[2].name = JStr(S_BetaLLC)
    /\ disrupted_names = {S_ACME, S_GAMMACORP}
    /\ labelled.rows[1].disrupted = 1
    /\ labelled.rows[2].disrupted = 0

(***************************************************************************)
(* Spec: the __main__ pipeline (scraper.py 234-256) on the answers the     *)
(* three services can give.                                                *)
(***************************************************************************)
MaxCompanies == 2   \* --max-companies is 0..MaxCompanies
MaxYears == 3       \* --years has 1..MaxYears years (nargs="+")

\* company_tickers.json holds a prefix of these (GOOGL and GOOG share a CIK)
TickerCatalogue ==
    << [cik_str |-> 320193,  ticker |-> "AAPL",  title |-> "Apple Inc."],
       [cik_str |-> 1652044, ticker |-> "GOOGL", title |-> "Alphabet Inc."],
       [cik_str |-> 1652044, ticker |-> "GOOG",  title |-> "Alphabet Inc."] >>

\* what the submissions endpoint answers in a run
AcmeDoc ==
    MkDoc(JStr(S_3571), JStr(S_AcmeInc), JStr(<<"C","o","m","p","u","t","e","r","s">>),
          JStr(<<"D","E">>), WellFormedFilings)
SparseDoc == MkDoc(Absent, JStr(S_BetaLLC), Absent, Absent, Absent)
NullNameDoc == MkDoc(JStr(<<>>), JNull, Absent, JNull, Filing(JList(<<>>)))

MainResponses ==
    {<<"error">>, <<"ok", AcmeDoc>>, <<"ok", SparseDoc>>, <<"ok", NullNameDoc>>}

\* what a year page answers in a run
Page(links) == <<"page", [mw_pages |-> TRUE, links |-> links]>>

WikiOutcomes ==
    {<<"error">>, <<"http">>,
     <<"page", [mw_pages |-> FALSE, links |-> <<>>]>>,
     Page(<<S_Acme, <<" ">>, <<>>, <<" ","G","a","m","m","a"," ","C","o","r","p","\n">>>>),
     Page(<<S_ACME, <<"Z","e","t","a"," ","H","o","l","d","i","n","g","s">>>>)}

Init ==
    /\ pc = "main_start"
    /\ max_companies \in 0..MaxCompanies
    /\ \E n \in 1..MaxYears : years = [k \in 1..n |-> 2018 + k]
    /\ listing = <<>> /\ tickers = NoTable
    /\ row_i = 0 /\ records = <<>> /\ sec_log = <<>>
    /\ year_i = 0 /\ all_records = <<>> /\ wiki_log = <<>>
    /\ files = NoFiles /\ error = ""
    /\ TierIdle /\ MetaIdle /\ LabelIdle

\* fetch_all_tickers raises (session.get, raise_for_status or resp.json());
\* nothing catches it
FetchAllTickersRaises ==
    /\ pc = "main_start"
    /\ pc' = "terminated"
    /\ error' = "fetch_all_tickers"
    /\ UNCHANGED <<files, tierVars, metaVars, labelVars, secVars, wikiVars>>

FetchAllTickers ==
    /\ pc = "main_start"
    /\ \E n \in 0..Len(TickerCatalogue) :
          /\ listing' = SubSeq(TickerCatalogue, 1, n)
          /\ tickers' = fetch_all_tickers(listing', max_companies)
    /\ pc' = "sec_loop"
    /\ UNCHANGED <<max_companies, row_i, records, sec_log,
                   tierVars, metaVars, labelVars, wikiVars, runVars>>

\* one iteration of "for i, row in tickers.iterrows()", its sleep included
FetchNextCompany ==
    /\ pc = "sec_loop"
    /\ row_i < Len(tickers.rows)
    /\ \E resp \in MainResponses :
          LET row == tickers.rows[row_i + 1]
          IN  /\ records' = MetaStep(records, row, resp)
              /\ sec_log' = sec_log \o <<<<"request", row.cik, resp>>, <<"sleep">>>>
    /\ row_i' = row_i + 1
    /\ UNCHANGED <<pc, max_companies, listing, tickers,
                   tierVars, metaVars, labelVars, wikiVars, runVars>>

\* the end of build_company_dataset: the table, companies.csv
SaveCompanies ==
    /\ pc = "sec_loop"
    /\ row_i = Len(tickers.rows)
    /\ companies' = DataFrame(records, CompanyColumns)
    /\ files' = ("companies.csv" :> companies') @@ files
    /\ pc' = "wiki_loop"
    /\ UNCHANGED <<disrupted_names, labelled, error,
                   tierVars, metaVars, secVars, wikiVars>>

\* one iteration of "for year in years"
ScrapeNextYear ==
    /\ pc = "wiki_loop"
    /\ year_i < Len(years)
    /\ \E outcome \in WikiOutcomes :
          LET step == WikiStep(all_records, year_i + 1, years, outcome)
          IN  /\ all_records' = step.all_records
              /\ year_i' = step.year_i
              /\ wiki_log' = wiki_log \o <<<<"request", years[year_i + 1], outcome>>>>
                                      \o (IF step.slept THEN <<<<"sleep">>>> ELSE <<>>)
    /\ UNCHANGED <<pc, years, tierVars, metaVars, labelVars, secVars, runVars>>

\* the end of scrape_wikipedia_bankruptcies (the table, bankruptcies.csv)
\* and the rest of builld_disrupted_name_set
BuildDisruptedNameSet ==
    /\ pc = "wiki_loop"
    /\ year_i = Len(years)
    /\ LET df == DataFrame(all_records, BankruptcyColumns)
       IN  /\ files' = ("bankruptcies.csv" :> df) @@ files
           /\ disrupted_names' = NameSetOf(df)
    /\ pc' = "label"
    /\ UNCHANGED <<companies, labelled, error, tierVars, metaVars, secVars, wikiVars>>

\* companies = label_companies(companies, disrupted_names), then
\* companies.to_csv("src/data/raw/companies_labelled.csv") and the prints;
\* an exception of the call ends the run before the file is written
LabelAndWrite ==
    /\ pc = "label"
    /\ LET out == label_companies(companies, disrupted_names)
       IN  /\ companies' = out.input
           /\ labelled' = out.output
           /\ pc' = IF out.raised = "no" THEN "done" ELSE "terminated"
           /\ error' = IF out.raised = "no" THEN "" ELSE out.raised
           /\ files' = IF out.raised = "no"
                       THEN ("companies_labelled.csv" :> out.output) @@ files
                       ELSE files
    /\ UNCHANGED <<disrupted_names, tierVars, metaVars, secVars, wikiVars>>

Next ==
    \/ FetchAllTickersRaises
    \/ FetchAllTickers
    \/ FetchNextCompany
    \/ SaveCompanies
    \/ ScrapeNextYear
    \/ BuildDisruptedNameSet
    \/ LabelAndWrite

Spec == Init /\ [][Next]_vars

IsRequest(e) == e[1] = "request"

Requests(log) == SelectSeq(log, IsRequest)

\* build_company_dataset has just returned
CompaniesBuilt == pc = "wiki_loop" /\ wiki_log = <<>>

\* builld_disrupted_name_set has just returned
NameSetBuilt == pc = "label"

\* the k-th smallest element of a set of numbers
Kth(S, k) == CHOOSE m \in S : Cardinality({n \in S : n <= m}) = k

Min(a, b) == IF a < b THEN a ELSE b

\* the indices of the year pages that were fetched and have the mw-pages div
GoodPagesOf(reqs) ==
    {k \in DOMAIN reqs : reqs[k][3][1] = "page" /\ reqs[k][3][2].mw_pages}

GoodPages == GoodPagesOf(Requests(wiki_log))

\* C5: whatever years fail, every year is attempted, and the name set is
\* exactly the uppercased, trimmed, non-empty link texts of the years that
\* succeeded.
C5_FailedYearsSkipped ==
    NameSetBuilt =>
        LET reqs  == Requests(wiki_log)
            texts == UNION {{reqs[k][3][2].links[j] : j \in DOMAIN reqs[k][3][2].links} :
                               k \in GoodPagesOf(reqs)}
        IN  /\ Len(reqs) = Len(years)
            /\ \A k \in DOMAIN years : reqs[k][2] = years[k]
            /\ disrupted_names = {Normalized(t) : t \in {txt \in texts : Trimmed(txt) # <<>>}}

\* 2020 alone fails out of [2019, 2020, 2021]: the names of 2019 and 2021
C5_Witness ==
    /\ pc = "label"
    /\ years = <<2019, 2020, 2021>>
    /\ GoodPages = {1, 3}
    /\ Requests(wiki_log)[2][3] = <<"http">>
    /\ Requests(wiki_log)[1][3] # Requests(wiki_log)[3][3]
    /\ disrupted_names =
           {S_ACME, S_GAMMACORP, <<"Z","E","T","A"," ","H","O","L","D","I","N","G","S">>}

\* the indices of the requests whose fetch gave a record
FetchedOf(reqs) ==
    {k \in DOMAIN reqs : fetch_company_metadata(reqs[k][2], reqs[k][3]).ok}

Fetched == FetchedOf(Requests(sec_log))

\* C6: each of the first N identifiers of the listing is fetched once, in
\* order; a failed fetch leaves no record and does not stop the loop; the
\* table holds one complete record with the listing's ticker per fetch that
\* succeeded, in order, so at most N records.
C6_OneRecordPerSuccessfulFetch ==
    CompaniesBuilt =>
        LET reqs == Requests(sec_log)
            got  == FetchedOf(reqs)
            rows == files["companies.csv"].rows
        IN  /\ Len(reqs) = Min(max_companies, Len(listing))
            /\ \A k \in DOMAIN reqs : reqs[k][2] = zfill(StrNat(listing[k].cik_str), 10)
            /\ Len(rows) = Cardinality(got)
            /\ Len(rows) <= max_companies
            /\ \A j \in DOMAIN rows :
                   LET rec == rows[j]
                       k   == Kth(got, j)
                   IN  /\ DOMAIN rec = {CompanyColumns[c] : c \in DOMAIN CompanyColumns}
                       /\ rec.cik = reqs[k][2]
                       /\ rec.ticker = listing[k].ticker
                       /\ rec.tier \in 0..4
                       /\ rec.n_total_filings >= rec.n_10k + rec.n_8k

\* the first of the two fetches fails, the second gives the only record
C6_Witness ==
    /\ pc = "wiki_loop"
    /\ max_companies = 2
    /\ Len(listing) = 3
    /\ Len(Requests(sec_log)) = 2
    /\ Fetched = {2}
    /\ Len(companies.rows) = 1
    /\ companies.rows[1].ticker = "GOOGL"

\* no two requests of a log without a sleep between them
DelayBetweenRequests(log) ==
    \A k \in DOMAIN log :
        (k < Len(log) /\ IsRequest(log[k])) => ~IsRequest(log[k + 1])

\* C9: a delay separates every two successive metadata fetches and every
\* two successive year-page fetches, whatever the earlier one's outcome.
C9_AsClaimed == DelayBetweenRequests(sec_log) /\ DelayBetweenRequests(wiki_log)

\* C7: the run ends early only when the ticker listing fails, and then before
\* any metadata or year-page request; otherwise it reaches the end with
\* companies_labelled.csv written.
C7_AsClaimed ==
    /\ pc = "terminated" =>
           (error = "fetch_all_tickers" /\ sec_log = <<>> /\ wiki_log = <<>>)
    /\ pc = "done" => "companies_labelled.csv" \in DOMAIN files

\* C10: label_companies returns the rows of its input in the same order
\* with the same value in every original column, plus a disrupted column of
\* 0 or 1, and leaves the caller's table as it was.
C10_SameTablePlusLabel ==
    [][(pc = "label" /\ pc' = "done") =>
          /\ companies' = companies
          /\ ~SeqHas(companies'.columns, "disrupted")
          /\ labelled'.columns = Append(companies.columns, "disrupted")
          /\ Len(labelled'.rows) = Len(companies.rows)
          /\ \A r \in DOMAIN companies.rows :
                /\ DOMAIN labelled'.rows[r] = DOMAIN companies.rows[r] \cup {"disrupted"}
                /\ \A c \in DOMAIN companies.rows[r] :
                      labelled'.rows[r][c] = companies.rows[r][c]
                /\ labelled'.rows[r].disrupted \in {0, 1}]_vars

C10_Witness ==
    /\ pc = "done"
    /\ Len(companies.rows) = 2
    /\ companies.rows[1].name = JStr(S_AcmeInc)
    /\ companies.rows[2].name = JStr(S_BetaLLC)
    /\ labelled.rows[1].disrupted = 1
    /\ labelled.rows[2].disrupted = 0
    /\ labelled.rows[1].ticker = "AAPL"
    /\ ~SeqHas(companies.columns, "disrupted")
====
